---- MODULE Spec2Model ----
(***************************************************************************)
(* Model of the FastAPI item service: the startup retry loop               *)
(* (app/main.py startup_event), the per-request database session          *)
(* (get_db), the two handlers (create_item, read_item), request            *)
(* validation, and the metrics middleware (app/observability.py            *)
(* log_requests).                                                          *)
(*                                                                         *)
(* Handlers are sync functions, so the framework runs them on worker       *)
(* threads: requests interleave at every database call.  The middleware    *)
(* is a coroutine on the event loop: its code before and after             *)
(* `await call_next(request)` runs without interleaving.                   *)
(***************************************************************************)
EXTENDS Integers, Sequences, FiniteSets

(* ---------------------------------------------------------------- bounds *)

\* Number of HTTP requests served in one run.
NumReq == 2

\* Largest item id a GET may ask for.
MaxItemId == 2

(* ------------------------------------------------------ program constants *)

max_retries == 5
retry_delay == 5

(* ----------------------------------------------------------------- values *)

Reqs == 1 .. NumReq

None == "None"

NoItem == [id |-> 0, name |-> None, description |-> None]

\* Request bodies a client may POST: a field is a string or is missing.
Bodies == [name : {"n", None}, description : {"d", None}]

NoBody == [name |-> None, description |-> None]

VARIABLES
    startup,        \* "Attempting", "Ready" or "Failed"
    i,              \* loop variable of startup_event
    outcomes,       \* outcome of every database.create_tables() call so far
    slept,          \* total time spent in time.sleep
    req,            \* per request: position, input, session, response
    table,          \* committed rows of the items table
    nextId,         \* next value of the store's id sequence
    REQUEST_COUNT,  \* Counter http_requests_total
    IN_PROGRESS     \* Gauge in_progress_requests

startupVars == <<startup, i, outcomes, slept>>
dbVars == <<table, nextId>>
metricVars == <<REQUEST_COUNT, IN_PROGRESS>>
vars == <<startup, i, outcomes, slept, req, table, nextId, REQUEST_COUNT, IN_PROGRESS>>

(* ---------------------------------------------------------------- startup *)

\* main.py:33, the test that decides between sleeping and re-raising.
ShouldRetryEarly(k) == k < max_retries - 2
ShouldRetryAlways(k) == k < max_retries
ShouldRetry(k) == k < max_retries - 1

\* main.py:27, `for i in range(max_retries)`: whether the loop has another
\* iteration for index k.
InRange(k) == k < max_retries

\* main.py:32, the except clause: which failures of create_tables are caught.
CaughtAll(err) == err \in {"OperationalError", "OtherError"}
Caught(err) == err = "OperationalError"

\* main.py:29-31: create_tables() succeeds, the loop breaks.
CreateTablesOk ==
    /\ startup = "Attempting"
    /\ outcomes' = Append(outcomes, "ok")
    /\ startup' = "Ready"
    /\ UNCHANGED <<i, slept, req, table, nextId, REQUEST_COUNT, IN_PROGRESS>>

\* main.py:29,32-38: create_tables() raises err.
CreateTablesFails(err) ==
    /\ startup = "Attempting"
    /\ outcomes' = Append(outcomes, err)
    /\ IF Caught(err) /\ ShouldRetry(i)
         THEN /\ slept' = slept + retry_delay
              /\ i' = i + 1
              /\ startup' = IF InRange(i + 1) THEN "Attempting" ELSE "Ready"
         ELSE /\ startup' = "Failed"
              /\ UNCHANGED <<i, slept>>
    /\ UNCHANGED <<req, table, nextId, REQUEST_COUNT, IN_PROGRESS>>

StartupStep ==
    \/ CreateTablesOk
    \/ \E err \in {"OperationalError", "OtherError"} : CreateTablesFails(err)

(* --------------------------------------------------------------- requests *)

\* schemas.py:4-9, ItemCreate: name and description are both required.
\* (ItemUpdateValid is the shape of ItemUpdate, schemas.py:11-13.)
ItemUpdateValid(body) == TRUE
ItemCreateValid(body) == body.name # None /\ body.description # None

\* main.py:53, models.Item(**item.dict()): the new row, id not yet assigned.
NewDbItemNameOnly(body) == [id |-> 0, name |-> body.name, description |-> None]
NewDbItem(body) == [id |-> 0, name |-> body.name, description |-> body.description]

\* main.py:18-21, get_db after the yield: `finally: db.close()`, whether or
\* not the request raised.
get_db_exit_no_finally(s, raised) ==
    IF raised THEN s ELSE [s EXCEPT !.sess = "closed", !.closes = @ + 1]
get_db_exit(s, raised) == [s EXCEPT !.sess = "closed", !.closes = @ + 1]

NoExc == [type |-> "none", status |-> 0]

\* main.py:71-76, the try body of read_item: what it raises, if anything.
read_item_try(queryOk, rows) ==
    IF ~queryOk THEN [type |-> "Exception", status |-> 0]
    ELSE IF rows = {} THEN [type |-> "HTTPException", status |-> 404]
    ELSE NoExc

\* main.py:77-82, the except clauses of read_item: the response status.
read_item_except_broad(exc) == 500
read_item_except(exc) == IF exc.type = "HTTPException" THEN exc.status ELSE 500

\* main.py:62-65, the `except Exception` clause of create_item: rollback,
\* then HTTPException(500).  If db.rollback() itself raises, that exception
\* leaves the handler.
create_item_except(s, step, wid, rollbackOk) ==
    [s EXCEPT !.failed = step, !.wouldId = wid, !.pending = NoItem,
              !.status = 500, !.escaped = ~rollbackOk, !.pc = "release"]

\* observability.py:118-126, log_requests after `await call_next(request)`:
\* call_next re-raises an exception that left the application, and then the
\* rest of the coroutine does not run.
log_requests_after(m, raised) ==
    IF raised THEN m
    ELSE [count |-> m.count + 1, gauge |-> m.gauge - 1]

RowsWithId(id) == {it \in table : it.id = id}

\* The store assigns the id of an inserted row from its sequence.
StoreInsert(row) == [row EXCEPT !.id = nextId]

\* observability.py:114-118, log_requests up to call_next: a request arrives.
\* Requests are numbered in order of arrival.
MiddlewareEnter(r, kind, body, id) ==
    /\ startup = "Ready"
    /\ req[r].pc = "idle"
    /\ r > 1 => req[r - 1].pc # "idle"
    /\ req' = [req EXCEPT ![r] = [@ EXCEPT !.pc = "deps", !.kind = kind,
                                             !.body = body, !.item_id = id]]
    /\ IN_PROGRESS' = IN_PROGRESS + 1
    /\ UNCHANGED <<startupVars, dbVars, REQUEST_COUNT>>

\* main.py:16-19, 41-47 and 50: the framework resolves the dependencies of
\* the route (get_db up to its yield: a session of the request's own) and
\* validates the body against ItemCreate.  A RequestValidationError becomes
\* a 422 and the handler is not called.
GetDb(r) ==
    /\ req[r].pc = "deps"
    /\ req' = [req EXCEPT ![r] =
          LET s == [@ EXCEPT !.sess = "open", !.opens = @ + 1]
          IN  IF req[r].kind = "create"
                THEN IF ItemCreateValid(req[r].body)
                       THEN [s EXCEPT !.pc = "add"]
                       ELSE [s EXCEPT !.status = 422, !.pc = "release"]
                ELSE [s EXCEPT !.pc = "query"]]
    /\ UNCHANGED <<startupVars, dbVars, metricVars>>

\* main.py:52-54: build the row and db.add it.
CreateAdd(r, ok, rollbackOk) ==
    /\ req[r].pc = "add"
    /\ req' = [req EXCEPT ![r] =
          IF ok
            THEN [@ EXCEPT !.db_item = NewDbItem(req[r].body),
                           !.pending = NewDbItem(req[r].body),
                           !.pc = "commit"]
            ELSE create_item_except(@, "add", nextId, rollbackOk)]
    /\ UNCHANGED <<startupVars, dbVars, metricVars>>

\* main.py:55: db.commit() inserts the pending row, the store assigns its id,
\* and the transaction commits; or it fails and nothing is committed (the
\* sequence value may or may not have been consumed).
CreateCommit(r, ok, consumed, rollbackOk) ==
    /\ req[r].pc = "commit"
    /\ IF ok
         THEN /\ table' = table \cup {StoreInsert(req[r].pending)}
              /\ nextId' = nextId + 1
              /\ req' = [req EXCEPT ![r] =
                    [@ EXCEPT !.db_item = StoreInsert(req[r].pending),
                              !.pending = NoItem, !.pc = "refresh"]]
         ELSE /\ table' = table
              /\ nextId' = IF consumed THEN nextId + 1 ELSE nextId
              /\ req' = [req EXCEPT ![r] =
                    create_item_except(@, "commit", nextId, rollbackOk)]
    /\ UNCHANGED <<startupVars, metricVars>>

\* main.py:56-58: db.refresh(db_item) reloads the row, and it is returned.
CreateRefresh(r, ok, rollbackOk) ==
    /\ req[r].pc = "refresh"
    /\ req' = [req EXCEPT ![r] =
          IF ok /\ RowsWithId(req[r].db_item.id) # {}
            THEN LET row == CHOOSE it \in RowsWithId(req[r].db_item.id) : TRUE
                 IN  [@ EXCEPT !.db_item = row, !.result = row,
                               !.status = 200, !.pc = "release"]
            ELSE create_item_except(@, "refresh", req[r].db_item.id, rollbackOk)]
    /\ UNCHANGED <<startupVars, dbVars, metricVars>>

\* main.py:68-82, read_item.
ReadItem(r, queryOk) ==
    /\ req[r].pc = "query"
    /\ LET rows == RowsWithId(req[r].item_id)
           exc == read_item_try(queryOk, rows)
       IN  req' = [req EXCEPT ![r] =
             IF exc = NoExc
               THEN [@ EXCEPT !.result = CHOOSE it \in rows : TRUE,
                              !.status = 200, !.pc = "release"]
               ELSE [@ EXCEPT !.failed = IF queryOk THEN "none" ELSE "query",
                              !.status = read_item_except(exc),
                              !.pc = "release"]]
    /\ UNCHANGED <<startupVars, dbVars, metricVars>>

\* main.py:20-21: the request leaves get_db.
ReleaseDb(r) ==
    /\ req[r].pc = "release"
    /\ req' = [req EXCEPT ![r] =
          [get_db_exit(@, req[r].status # 200) EXCEPT !.pc = "respond"]]
    /\ UNCHANGED <<startupVars, dbVars, metricVars>>

\* observability.py:118-136: call_next returns the response, or raises.
MiddlewareExit(r) ==
    /\ req[r].pc = "respond"
    /\ LET m == log_requests_after([count |-> REQUEST_COUNT, gauge |-> IN_PROGRESS],
                                   req[r].escaped)
       IN  /\ REQUEST_COUNT' = m.count
           /\ IN_PROGRESS' = m.gauge
    /\ req' = [req EXCEPT ![r] = [@ EXCEPT !.pc = "done"]]
    /\ UNCHANGED <<startupVars, dbVars>>

RequestStepOf(r) ==
    \/ \E body \in Bodies : MiddlewareEnter(r, "create", body, 0)
    \/ \E id \in 1 .. MaxItemId : MiddlewareEnter(r, "read", NoBody, id)
    \/ GetDb(r)
    \/ \E ok, rb \in BOOLEAN : CreateAdd(r, ok, rb)
    \/ \E ok, consumed, rb \in BOOLEAN : CreateCommit(r, ok, consumed, rb)
    \/ \E ok, rb \in BOOLEAN : CreateRefresh(r, ok, rb)
    \/ \E ok \in BOOLEAN : ReadItem(r, ok)
    \/ ReleaseDb(r)
    \/ MiddlewareExit(r)

RequestStep == \E r \in Reqs : RequestStepOf(r)

(* ------------------------------------------------------------------- Init *)

IdleReq ==
    [pc |-> "idle", kind |-> "none", body |-> NoBody, item_id |-> 0,
     sess |-> "none", opens |-> 0, closes |-> 0,
     pending |-> NoItem, db_item |-> NoItem,
     failed |-> "none", wouldId |-> 0,
     status |-> 0, escaped |-> FALSE, result |-> NoItem]

Init ==
    /\ startup = "Attempting"
    /\ i = 0
    /\ outcomes = <<>>
    /\ slept = 0
    /\ req = [r \in Reqs |-> IdleReq]
    /\ table = {}
    /\ nextId = 1
    /\ REQUEST_COUNT = 0
    /\ IN_PROGRESS = 0

Next == StartupStep \/ RequestStep

\* The whole program, from process start.
Spec == Init /\ [][Next]_vars

\* The startup sequencer, followed by the requests of a single client.  The
\* loop of startup_event runs to its end: nothing in it waits on anything
\* but time.sleep.
StartupNext == StartupStep \/ RequestStepOf(1)

StartupSpec == Init /\ [][StartupNext]_vars /\ WF_vars(StartupStep)

\* The application serving requests, once startup_event has returned at its
\* first attempt.
ServeInit ==
    /\ startup = "Ready"
    /\ i = 0
    /\ outcomes = <<"ok">>
    /\ slept = 0
    /\ req = [r \in Reqs |-> IdleReq]
    /\ table = {}
    /\ nextId = 1
    /\ REQUEST_COUNT = 0
    /\ IN_PROGRESS = 0

ServeSpec == ServeInit /\ [][RequestStep]_vars

(* ------------------------------------------------------------- properties *)

Attempts == Len(outcomes)

AllOperational(n) == \A k \in 1 .. n : outcomes[k] = "OperationalError"

Terminal == startup \in {"Ready", "Failed"}

MissingField(body) == body.name = None \/ body.description = None

InMiddleware(s) == s.pc \notin {"idle", "done"}

InHandler(s) == s.pc \in {"add", "commit", "refresh", "query"}

Changed(r) == req'[r] # req[r]

\* C1: while every create_tables() call so far has raised OperationalError,
\* startup is neither Ready nor Failed before the 5th attempt, it is Failed
\* once the 5th attempt has failed, retry_delay has been slept after each
\* failed attempt but the last, and there is never a 6th attempt.
C1_UnreachableDbRetriesFiveTimes ==
    /\ Attempts <= max_retries
    /\ AllOperational(Attempts) =>
          /\ startup # "Ready"
          /\ startup = "Failed" <=> Attempts = max_retries
          /\ slept = retry_delay * (IF Attempts < max_retries
                                      THEN Attempts ELSE max_retries - 1)

C1_Witness ==
    /\ startup = "Failed"
    /\ Attempts = 5
    /\ AllOperational(5)
    /\ slept = 20

\* C8 as stated: startup is Failed only after all 5 attempts have been made
\* and have failed, whatever the way an attempt fails.
C8_FailedOnlyAfterFiveAttempts ==
    startup = "Failed" =>
        /\ Attempts = max_retries
        /\ \A k \in 1 .. Attempts : outcomes[k] # "ok"

\* C8 amended: startup is Failed only after 5 attempts that all raised
\* OperationalError, or right after an attempt that raised another error;
\* an attempt raising another error is always the last one and ends in
\* Failed.
C8_FailedAfterFiveOperationalOrOtherError ==
    /\ startup = "Failed" =>
          \/ Attempts = max_retries /\ AllOperational(Attempts)
          \/ Attempts >= 1 /\ outcomes[Attempts] = "OtherError"
    /\ \A k \in 1 .. Attempts :
          outcomes[k] = "OtherError" => k = Attempts /\ startup = "Failed"

C8_Witness ==
    /\ startup = "Failed"
    /\ Attempts = 2
    /\ outcomes[1] = "OperationalError"
    /\ outcomes[2] = "OtherError"

\* C9: startup is Ready exactly when the last attempt made is the first one
\* to succeed, after k - 1 sleeps; once Ready or Failed, the sequencer makes
\* no further attempt, sleeps no more and changes state no more; no run has
\* more than 5 attempts, and every run reaches Ready or Failed.
C9_ReadyOnFirstSuccess ==
    /\ [](startup = "Ready" =>
            /\ Attempts \in 1 .. max_retries
            /\ outcomes[Attempts] = "ok"
            /\ AllOperational(Attempts - 1)
            /\ slept = retry_delay * (Attempts - 1))
    /\ []((Attempts >= 1 /\ outcomes[Attempts] = "ok") => startup = "Ready")
    /\ [](Attempts <= max_retries)
    /\ [][Terminal => UNCHANGED startupVars]_vars
    /\ <>Terminal

C9_Witness ==
    /\ startup = "Ready"
    /\ Attempts = 3
    /\ slept = 10
    /\ \E r \in Reqs : req[r].pc = "done"

\* C2 as stated: when add, commit or refresh fails in create_item, the
\* response is a 500 and no row with the id the item would have been
\* assigned is committed.
C2_FailedCreateLeavesNoRecord ==
    [][\A r \in Reqs :
          (InHandler(req[r]) /\ req[r].kind = "create" /\ req'[r].failed # "none") =>
              /\ req'[r].status = 500
              /\ {it \in table' : it.id = req'[r].wouldId} = {}]_vars

\* C3: ids of committed rows are unique and name and description are
\* present in every row; a successful create returns a committed row with
\* the submitted name and description, under an id no other successful
\* create returned; and a commit assigns an id no row held before it.
C3_UniqueIdsAndSubmittedFields ==
    /\ [](/\ \A a, b \in table : a.id = b.id => a = b
          /\ \A it \in table :
                it.id >= 1 /\ it.name # None /\ it.description # None
          /\ \A r \in Reqs :
                (req[r].kind = "create" /\ req[r].status = 200) =>
                    /\ req[r].result \in table
                    /\ req[r].result.name = req[r].body.name
                    /\ req[r].result.description = req[r].body.description
          /\ \A r1, r2 \in Reqs :
                (/\ r1 # r2
                 /\ req[r1].kind = "create" /\ req[r1].status = 200
                 /\ req[r2].kind = "create" /\ req[r2].status = 200) =>
                    req[r1].result.id # req[r2].result.id)
    /\ [][\A r \in Reqs :
            (req[r].pc = "commit" /\ req'[r].pc = "refresh") =>
                /\ RowsWithId(req'[r].db_item.id) = {}
                /\ req'[r].db_item \in table']_vars

C3_Witness ==
    /\ \A r \in Reqs : req[r].kind = "create" /\ req[r].status = 200
                        /\ req[r].pc = "done"
    /\ Cardinality(table) = NumReq

\* C4: when the query of read_item does not fail, the response is a 200 with
\* the row of the requested id if such a row is committed and a 404 if
\* none is; the response is a 500 only when the query failed.
C4_ReadFoundOrNotFound ==
    [][\A r \in Reqs :
          (req[r].pc = "query" /\ Changed(r)) =>
              LET rows == RowsWithId(req[r].item_id)
                  s == req'[r]
              IN  /\ s.status \in {200, 404, 500}
                  /\ (s.failed = "none" /\ rows # {}) =>
                        s.status = 200 /\ s.result \in rows
                  /\ (s.failed = "none" /\ rows = {}) => s.status = 404
                  /\ s.status = 500 => s.failed = "query"]_vars

C4_Witness ==
    \E r1, r2 \in Reqs :
        /\ req[r1].kind = "create" /\ req[r1].status = 200
        /\ req[r2].kind = "read" /\ req[r2].status = 404
        /\ req[r2].item_id # req[r1].result.id
        /\ req[r2].failed = "none"
        /\ req[r2].pc = "done"

\* C5: a request opens one session, which is open while the handler runs
\* and has been closed exactly once when the request leaves get_db, whatever
\* the outcome; once every request is done no session is open.
C5_SessionClosedExactlyOnce ==
    /\ \A r \in Reqs :
          /\ req[r].opens <= 1 /\ req[r].closes <= req[r].opens
          /\ (InHandler(req[r]) \/ req[r].pc = "release") =>
                req[r].sess = "open" /\ req[r].opens = 1 /\ req[r].closes = 0
          /\ req[r].pc \in {"respond", "done"} =>
                req[r].sess = "closed" /\ req[r].opens = 1 /\ req[r].closes = 1
    /\ (\A r \in Reqs : req[r].pc = "done") =>
          \A r \in Reqs : req[r].sess # "open"

C5_Witness ==
    /\ \A r \in Reqs : req[r].pc = "done" /\ req[r].closes = 1
    /\ \E r \in Reqs : req[r].escaped
    /\ \E r \in Reqs : req[r].status = 404

\* C6 as stated: the request counter equals the number of completed
\* requests, whatever their outcome.
C6_CounterCountsCompletedRequests ==
    REQUEST_COUNT = Cardinality({r \in Reqs : req[r].pc = "done"})

\* C7: a create request whose body misses a field never reaches the
\* handler: it adds nothing to its session, gets no id, is answered 422,
\* and no step of it changes the committed rows or the id sequence.
C7_InvalidCreateRejectedBeforePersistence ==
    /\ [](\A r \in Reqs :
            (req[r].kind = "create" /\ MissingField(req[r].body)) =>
                /\ ~InHandler(req[r])
                /\ req[r].pending = NoItem
                /\ req[r].db_item = NoItem
                /\ req[r].failed = "none"
                /\ req[r].pc \in {"release", "respond", "done"} =>
                      req[r].status = 422
                /\ \A it \in table : it.name # None /\ it.description # None)
    /\ [][\A r \in Reqs :
            (req'[r].kind = "create" /\ MissingField(req'[r].body) /\ Changed(r)) =>
                table' = table /\ nextId' = nextId]_vars

C7_Witness ==
    \E r1, r2 \in Reqs :
        /\ req[r1].kind = "create" /\ req[r1].status = 200
        /\ req[r2].kind = "create" /\ req[r2].body.name = None
        /\ req[r2].pc = "done" /\ req[r2].status = 422
        /\ table = {req[r1].result}

\* C10 as stated: the in-progress gauge equals the number of requests that
\* have entered log_requests and not yet left it.
C10_GaugeTracksInFlight ==
    IN_PROGRESS = Cardinality({r \in Reqs : InMiddleware(req[r])})

====
